---- MODULE Spec2Model ----
(***************************************************************************)
(* Card arrangement visualizer (src/main.py): deck construction, the four  *)
(* itertools enumerations with their closed-form counts, and the layout    *)
(* arithmetic of the grid display and of the two comparison views.         *)
(*                                                                         *)
(* Arrangements are kept as tuples of 0-based deck indices; the card shown *)
(* at a position is cards[index + 1].  Python floats are modelled as exact *)
(* rationals [num, den] in lowest terms with den > 0.                      *)
(***************************************************************************)
EXTENDS Integers, Sequences, FiniteSets, TLC

VARIABLES pc, n_cards, cards, r, selection_type, total, arrangements, fig,
          arrangements_dict, displays, formulas, layout, axes, exc,
          n_arrangements, dims, prev_dims,
          arr_idx, card_i, y_step, ax2, progress

\* position in the loops of animate_card_selection, the selection area as
\* last drawn, and the progress bar
anim == <<arr_idx, card_i, y_step, ax2, progress>>

vars == <<pc, n_cards, cards, r, selection_type, total, arrangements, fig,
          arrangements_dict, displays, formulas, layout, axes, exc,
          n_arrangements, dims, prev_dims, anim>>

(* ------------------------------ bounds --------------------------------- *)
\* largest deck built by create_deck
MaxDeck == 54
\* largest deck handed to an enumeration
MaxN == 4
\* largest number of positions to fill
MaxR == 8
\* enumerations are only run when n^r stays within this many arrangements
MaxArrangements == 256
\* largest count handed directly to calculate_grid_dimensions
MaxCount == 14

(* --------------------------- exact rationals --------------------------- *)
Abs(x) == IF x < 0 THEN -x ELSE x

RECURSIVE GCD(_, _)
GCD(a, b) == IF b = 0 THEN a ELSE GCD(b, a % b)

Rat(a, b) ==
    LET g == GCD(Abs(a), Abs(b))
        s == IF b < 0 THEN -1 ELSE 1
    IN  [num |-> (s * a) \div g, den |-> (s * b) \div g]

RInt(k) == [num |-> k, den |-> 1]
RAdd(x, y) == Rat(x.num * y.den + y.num * x.den, x.den * y.den)
RNeg(x) == [num |-> -x.num, den |-> x.den]
RSub(x, y) == RAdd(x, RNeg(y))
RMul(x, y) == Rat(x.num * y.num, x.den * y.den)
RLe(x, y) == x.num * y.den <= y.num * x.den
RMin(x, y) == IF RLe(x, y) THEN x ELSE y

(* ------------------------------- Card ---------------------------------- *)
suits == <<"H", "S", "C", "D">>
values == [i \in 1..13 |-> i]
symbols == <<"A", "2", "3", "4", "5", "6", "7", "8", "9", "10", "J", "Q", "K">>

Card(value, suit) ==
    [value |-> value, suit |-> suit, symbol |-> symbols[value],
     color |-> IF suit \in {"H", "D"} THEN "red" ELSE "black"]

create_deck_swapped(n) ==
    [k \in 1..n |-> Card(values[((k - 1) % Len(suits)) + 1],
                         suits[((k - 1) % Len(suits)) + 1])]

\* for i in range(n): Card(values[i % 13], suits[i % 4]); i = k - 1
create_deck(n) ==
    [k \in 1..n |-> Card(values[((k - 1) % Len(values)) + 1],
                         suits[((k - 1) % Len(suits)) + 1])]

(* --------------------------- closed forms ------------------------------ *)
RECURSIVE Factorial(_)
Factorial(k) == IF k <= 0 THEN 1 ELSE k * Factorial(k - 1)

RECURSIVE Pow(_, _)
Pow(n, k) == IF k = 0 THEN 1 ELSE n * Pow(n, k - 1)

math_perm(n, k) == IF k > n THEN 0 ELSE Factorial(n) \div Factorial(n - k)

math_comb_ordered(n, k) ==
    IF k > n THEN 0 ELSE Factorial(n) \div Factorial(n - k)

math_comb(n, k) ==
    IF k > n THEN 0 ELSE Factorial(n) \div (Factorial(k) * Factorial(n - k))

math_ceil_div(a, b) == (a + b - 1) \div b

(* ---------------------------- itertools -------------------------------- *)
\* range(n) as a sequence of 0-based indices
range(n) == [k \in 1..n |-> k - 1]

\* itertools.product(pool, repeat=r): result = [x + [y] for x in result for y in pool]
RECURSIVE product(_, _)
product(n, k) ==
    IF k = 0 THEN << <<>> >>
    ELSE LET result == product(n, k - 1)
         IN  [q \in 1..(Len(result) * n) |->
                 Append(result[((q - 1) \div n) + 1], (q - 1) % n)]

\* indices[i:] = indices[i+1:] + indices[i:i+1]   (i 0-based)
RotateTail(indices, i) ==
    SubSeq(indices, 1, i) \o SubSeq(indices, i + 2, Len(indices))
        \o <<indices[i + 1]>>

\* indices[i], indices[-j] = indices[-j], indices[i]   (i 0-based)
SwapIdx(indices, i, j) ==
    LET n == Len(indices)
    IN  [indices EXCEPT ![i + 1] = indices[n - j + 1],
                        ![n - j + 1] = indices[i + 1]]

\* one pass of "for i in reversed(range(r))" in itertools.permutations
RECURSIVE PermAdvance(_, _, _, _)
PermAdvance(indices, cycles, i, n) ==
    IF i < 0 THEN [done |-> TRUE, indices |-> indices, cycles |-> cycles]
    ELSE LET c == cycles[i + 1] - 1
         IN  IF c = 0
             THEN PermAdvance(RotateTail(indices, i),
                              [cycles EXCEPT ![i + 1] = n - i], i - 1, n)
             ELSE [done |-> FALSE,
                   indices |-> SwapIdx(indices, i, c),
                   cycles |-> [cycles EXCEPT ![i + 1] = c]]

RECURSIVE PermCollect(_, _, _, _, _)
PermCollect(indices, cycles, n, k, acc) ==
    LET s == PermAdvance(indices, cycles, k - 1, n)
    IN  IF s.done THEN acc
        ELSE PermCollect(s.indices, s.cycles, n, k,
                         Append(acc, SubSeq(s.indices, 1, k)))

permutations_reversed(n, k) ==
    IF k > n THEN <<>>
    ELSE LET out == PermCollect(range(n), [i \in 1..k |-> n - i + 1], n, k,
                                <<SubSeq(range(n), 1, k)>>)
         IN  [q \in 1..Len(out) |-> out[Len(out) - q + 1]]

\* itertools.permutations(pool, r): nothing is yielded when r > n
permutations(n, k) ==
    IF k > n THEN <<>>
    ELSE PermCollect(range(n), [i \in 1..k |-> n - i + 1], n, k,
                     <<SubSeq(range(n), 1, k)>>)

\* rightmost 0-based i with indices[i] # limit[i], or -1 (the for/else return)
RECURSIVE LastBelow(_, _, _)
LastBelow(indices, i, limit) ==
    IF i < 0 THEN -1
    ELSE IF indices[i + 1] # limit[i + 1] THEN i
    ELSE LastBelow(indices, i - 1, limit)

\* indices[i] += 1; for j in range(i+1, r): indices[j] = indices[j-1] + 1
CombBump(indices, i) ==
    [q \in 1..Len(indices) |->
        IF q - 1 < i THEN indices[q] ELSE indices[i + 1] + 1 + (q - 1 - i)]

RECURSIVE CombCollect(_, _, _, _)
CombCollect(indices, n, k, acc) ==
    LET i == LastBelow(indices, k - 1, [q \in 1..k |-> (q - 1) + n - k])
    IN  IF i < 0 THEN acc
        ELSE LET nxt == CombBump(indices, i)
             IN  CombCollect(nxt, n, k, Append(acc, nxt))

\* itertools.combinations(pool, r): nothing is yielded when r > n
combinations(n, k) ==
    IF k > n THEN <<>>
    ELSE CombCollect(range(k), n, k, <<range(k)>>)

CwrBump_reset(indices, i) ==
    [q \in 1..Len(indices) |->
        IF q - 1 < i THEN indices[q]
        ELSE IF q - 1 = i THEN indices[i + 1] + 1 ELSE 0]

\* indices[i:] = [indices[i] + 1] * (r - i)
CwrBump(indices, i) ==
    [q \in 1..Len(indices) |->
        IF q - 1 < i THEN indices[q] ELSE indices[i + 1] + 1]

RECURSIVE CwrCollect(_, _, _, _)
CwrCollect(indices, n, k, acc) ==
    LET i == LastBelow(indices, k - 1, [q \in 1..k |-> n - 1])
    IN  IF i < 0 THEN acc
        ELSE LET nxt == CwrBump(indices, i)
             IN  CwrCollect(nxt, n, k, Append(acc, nxt))

\* itertools.combinations_with_replacement(pool, r): empty for an empty pool
combinations_with_replacement(n, k) ==
    IF n = 0 /\ k > 0 THEN <<>>
    ELSE CwrCollect([q \in 1..k |-> 0], n, k, <<[q \in 1..k |-> 0]>>)

(* ----------------------------- layout --------------------------------- *)
Min(a, b) == IF a <= b THEN a ELSE b
Max(a, b) == IF a >= b THEN a ELSE b

calculate_grid_dimensions_tight(n) ==
    IF n <= 4 THEN <<1, n>>
    ELSE IF n <= 8 THEN <<2, 3>>
    ELSE LET n_cols == Min(6, n)
         IN  <<(n + n_cols - 1) \div n_cols, n_cols>>

calculate_grid_dimensions_wide(n) ==
    IF n <= 4 THEN <<1, n>>
    ELSE IF n <= 8 THEN <<2, 4>>
    ELSE LET n_cols == Min(3, n)
         IN  <<(n + n_cols - 1) \div n_cols, n_cols>>

\* returns <<n_rows, n_cols>>
calculate_grid_dimensions(n) ==
    IF n <= 4 THEN <<1, n>>
    ELSE IF n <= 8 THEN <<2, 4>>
    ELSE LET n_cols == Min(6, n)
         IN  <<(n + n_cols - 1) \div n_cols, n_cols>>

\* Rectangle((x, y), width, height) added by create_card_patch
create_card_patch(x, y, width, height) ==
    [x |-> x, y |-> y, width |-> width, height |-> height]

\* one subplot of create_grid_display: limits and the card rectangles
GridAxes(idx, arrangement) ==
    LET len == Len(arrangement)
        xlim_width == Max(4, (len * 8) \div 10)
        start_x == RNeg(Rat((len - 1) * 7, 20))
    IN  [index |-> idx + 1,
         xlim |-> <<Rat(-xlim_width, 2), Rat(xlim_width, 2)>>,
         ylim |-> <<RInt(0), RInt(2)>>,
         arrangement |-> arrangement,
         patches |-> [i \in 1..len |->
             create_card_patch(RAdd(start_x, Rat((i - 1) * 7, 10)),
                               Rat(1, 2), Rat(6, 10), Rat(8, 10))]]

create_grid_display(arrs) ==
    LET d == calculate_grid_dimensions(Len(arrs))
    IN  [n_rows |-> d[1], n_cols |-> d[2],
         width |-> Min(15, d[2] * 3), height |-> Min(15, d[1] * 2),
         axes |-> [q \in 1..Len(arrs) |-> GridAxes(q - 1, arrs[q])]]

types == <<"Permutation (No Repetition)", "Permutation (With Repetition)",
           "Combination (No Repetition)", "Combination (With Repetition)">>

BallsAndBins == "Combination (With Repetition) - Balls and Bins"

selection_types == {types[1], types[2], types[3], BallsAndBins}

\* the if/elif/else chain of animate_card_selection
Enumerate(n, k, type) ==
    IF type = types[1] THEN permutations(n, k)
    ELSE IF type = types[2] THEN product(n, k)
    ELSE IF type = types[3] THEN combinations(n, k)
    ELSE combinations_with_replacement(n, k)

\* the if/elif/else chain of main computing the theoretical total
TheoreticalTotal(n, k, type) ==
    IF type = types[1] THEN math_perm(n, k)
    ELSE IF type = types[2] THEN Pow(n, k)
    ELSE IF type = types[3] THEN math_comb(n, k)
    ELSE math_comb(n + k - 1, k)

ArrangementsDict(n, k) ==
    [t \in {types[q] : q \in 1..4} |->
        IF t = types[1] THEN permutations(n, k)
        ELSE IF t = types[2] THEN product(n, k)
        ELSE IF t = types[3] THEN combinations(n, k)
        ELSE combinations_with_replacement(n, k)]

Formulas(n, k) ==
    <<math_perm(n, k), Pow(n, k), math_comb(n, k), math_comb(n + k - 1, k)>>

MaxLen(d) ==
    Max(Max(Len(d[types[1]]), Len(d[types[2]])),
        Max(Len(d[types[3]]), Len(d[types[4]])))

ComparisonCols(max_arrangements) ==
    IF max_arrangements <= 3 THEN max_arrangements
    ELSE IF max_arrangements <= 6 THEN 3
    ELSE 4

\* defined only when ComparisonCols is not 0 (otherwise ZeroDivisionError)
calculate_comparison_layout(d) ==
    LET max_arrangements == MaxLen(d)
        cols == ComparisonCols(max_arrangements)
        rows == math_ceil_div(max_arrangements, cols)
    IN  [cols |-> cols, rows |-> rows,
         ax_width |-> RMin(Rat(28, 100), Rat(9, 10 * cols)),
         ax_height |-> RMin(Rat(28, 100), Rat(8, 10 * rows)),
         x_spacing |-> RMin(Rat(32, 100), Rat(1, cols)),
         y_spacing |-> RMin(Rat(32, 100), Rat(9, 10 * rows))]

\* the add_axes rectangle of arrangement arr_idx, relative to its quadrant
ComparisonAxes(idx, l) ==
    LET row == idx \div l.cols
        col == idx % l.cols
    IN  [row |-> row, col |-> col,
         x_pos |-> RAdd(Rat(5, 100), RMul(RInt(col), l.x_spacing)),
         y_pos |-> RSub(Rat(8, 10), RMul(RInt(row), l.y_spacing)),
         width |-> l.ax_width, height |-> l.ax_height]

\* per-quadrant sizing at the head of create_arrangement_display
\* (defined only when n > 0, otherwise ZeroDivisionError)
create_arrangement_display(title, n) ==
    LET cols == Min(4, n)
        rows == math_ceil_div(n, cols)
    IN  [title |-> title, n_arrangements |-> n, cols |-> cols, rows |-> rows,
         width |-> Min(12, cols * 3), height |-> RMin(RInt(12), Rat(rows * 25, 10))]

\* quadrants are drawn in dict order until one raises
RECURSIVE DrawQuadrants(_, _, _)
DrawQuadrants(d, q, done) ==
    IF q > 4 THEN [displays |-> done, exc |-> "None"]
    ELSE IF Len(d[types[q]]) = 0
         THEN [displays |-> done, exc |-> "ZeroDivisionError"]
         ELSE DrawQuadrants(d, q + 1,
                 Append(done, create_arrangement_display(types[q], Len(d[types[q]]))))

(* ------------------------- selection area ------------------------------ *)
\* linspace(2, 0.5, 3)
linspace == <<RInt(2), Rat(5, 4), Rat(1, 2)>>

\* ax2.set_xlim(-(r * 0.7) / 2 - 0.5, (r * 0.7) / 2 + 0.5)
SelectionXlim(k) ==
    <<RSub(RNeg(Rat(k * 7, 20)), Rat(1, 2)), RAdd(Rat(k * 7, 20), Rat(1, 2))>>

start_x_arr_grid(k) == RNeg(Rat((k - 1) * 7, 20))

\* start_x_arr = -(r * 0.7) / 2
start_x_arr(k) == RNeg(Rat(k * 7, 20))

\* create_card_patch(ax2, card, start_x_arr + j * 0.7, y), j 0-based
SelectionPatch(card, k, j, y) ==
    [card |-> card,
     rect |-> create_card_patch(RAdd(start_x_arr(k), Rat(j * 7, 10)), y,
                                Rat(6, 10), Rat(8, 10))]

\* the selection area before the first arrangement: limits only
SetupFrame(k) ==
    [kind |-> "setup", title |-> 0, xlim |-> SelectionXlim(k),
     ylim |-> <<RInt(0), RInt(2)>>, patches |-> <<>>]

DropFrame_whole(arrangement, idx, k, i, y) ==
    [kind |-> "drop", title |-> idx + 1, xlim |-> SelectionXlim(k),
     ylim |-> <<RInt(0), RInt(2)>>,
     patches |-> [j \in 1..Len(arrangement) |->
         IF j <= i THEN SelectionPatch(arrangement[j], k, j - 1, Rat(1, 2))
         ELSE SelectionPatch(arrangement[j], k, j - 1, y)]]

\* a frame of the drop: cards 0..i-1 at rest, card i at height y
DropFrame(arrangement, idx, k, i, y) ==
    [kind |-> "drop", title |-> idx + 1, xlim |-> SelectionXlim(k),
     ylim |-> <<RInt(0), RInt(2)>>,
     patches |-> [j \in 1..(i + 1) |->
         IF j <= i THEN SelectionPatch(arrangement[j], k, j - 1, Rat(1, 2))
         ELSE SelectionPatch(arrangement[i + 1], k, i, y)]]

\* the final frame of an arrangement: every card at rest
FinalFrame(arrangement, idx, k) ==
    [kind |-> "final", title |-> idx + 1, xlim |-> SelectionXlim(k),
     ylim |-> <<RInt(0), RInt(2)>>,
     patches |-> [j \in 1..Len(arrangement) |->
         SelectionPatch(arrangement[j], k, j - 1, Rat(1, 2))]]

(* ------------------------------ actions -------------------------------- *)
Init ==
    /\ pc = "start"
    /\ n_cards = 0
    /\ cards = <<>>
    /\ r = 0
    /\ selection_type = ""
    /\ total = 0
    /\ arrangements = <<>>
    /\ fig = <<>>
    /\ arrangements_dict = <<>>
    /\ displays = <<>>
    /\ formulas = <<>>
    /\ layout = <<>>
    /\ axes = <<>>
    /\ exc = "None"
    /\ n_arrangements = 0
    /\ dims = <<>>
    /\ prev_dims = <<>>
    /\ arr_idx = 0
    /\ card_i = 0
    /\ y_step = 0
    /\ ax2 = <<>>
    /\ progress = RInt(0)

\* the enumerations are only run on inputs of bounded size
Bounded(n, k) == n <= MaxN /\ Pow(n, k) <= MaxArrangements

CreateDeck(n) ==
    /\ pc = "start"
    /\ n_cards' = n
    /\ cards' = create_deck(n)
    /\ pc' = "deck"
    /\ UNCHANGED <<anim, r, selection_type, total, arrangements, fig, arrangements_dict,
                   displays, formulas, layout, axes, exc, n_arrangements, dims,
                   prev_dims>>

ComputeTotal(k, type) ==
    /\ pc = "deck"
    /\ Bounded(Len(cards), k)
    /\ r' = k
    /\ selection_type' = type
    /\ total' = TheoreticalTotal(Len(cards), k, type)
    /\ pc' = "counted"
    /\ UNCHANGED <<anim, n_cards, cards, arrangements, fig, arrangements_dict, displays, formulas,
                   layout, axes, exc, n_arrangements, dims, prev_dims>>

\* enumeration and set-up of the selection area, up to the arrangement loop
AnimateCardSelection ==
    /\ pc = "counted"
    /\ arrangements' = Enumerate(Len(cards), r, selection_type)
    /\ ax2' = SetupFrame(r)
    /\ progress' = RInt(0)
    /\ arr_idx' = 0
    /\ card_i' = 0
    /\ y_step' = 0
    /\ pc' = IF Len(arrangements') = 0 THEN "animated" ELSE "animating"
    /\ UNCHANGED <<n_cards, cards, r, selection_type, total, fig, arrangements_dict,
                   displays, formulas, layout, axes, exc, n_arrangements, dims,
                   prev_dims>>

\* one pass of "for y in linspace(2, 0.5, 3)": one frame of the dropping card
\* (the progress bar is advanced at the head of each arrangement)
AnimateDropFrame ==
    /\ pc = "animating"
    /\ card_i < Len(arrangements[arr_idx + 1])
    /\ ax2' = DropFrame(arrangements[arr_idx + 1], arr_idx, r, card_i,
                        linspace[y_step + 1])
    /\ progress' = IF card_i = 0 /\ y_step = 0
                   THEN Rat(arr_idx + 1, Len(arrangements))
                   ELSE progress
    /\ y_step' = IF y_step + 1 = Len(linspace) THEN 0 ELSE y_step + 1
    /\ card_i' = IF y_step + 1 = Len(linspace) THEN card_i + 1 ELSE card_i
    /\ UNCHANGED <<pc, arr_idx, n_cards, cards, r, selection_type, total,
                   arrangements, fig, arrangements_dict, displays, formulas,
                   layout, axes, exc, n_arrangements, dims, prev_dims>>

\* "Show final arrangement", then the next arrangement or the return
AnimateFinalFrame ==
    /\ pc = "animating"
    /\ card_i = Len(arrangements[arr_idx + 1])
    /\ ax2' = FinalFrame(arrangements[arr_idx + 1], arr_idx, r)
    /\ arr_idx' = arr_idx + 1
    /\ card_i' = 0
    /\ y_step' = 0
    /\ pc' = IF arr_idx + 1 = Len(arrangements) THEN "animated" ELSE "animating"
    /\ UNCHANGED <<progress, n_cards, cards, r, selection_type, total,
                   arrangements, fig, arrangements_dict, displays, formulas,
                   layout, axes, exc, n_arrangements, dims, prev_dims>>

CreateGridDisplay ==
    /\ pc = "animated"
    /\ fig' = create_grid_display(arrangements)
    /\ pc' = "grid"
    /\ UNCHANGED <<anim, n_cards, cards, r, selection_type, total, arrangements, arrangements_dict,
                   displays, formulas, layout, axes, exc, n_arrangements, dims,
                   prev_dims>>

CreateResponsiveComparisonView(k) ==
    /\ pc = "deck"
    /\ Bounded(Len(cards), k)
    /\ LET d == ArrangementsDict(Len(cards), k)
           drawn == DrawQuadrants(d, 1, <<>>)
       IN  /\ arrangements_dict' = d
           /\ displays' = drawn.displays
           /\ exc' = drawn.exc
           /\ formulas' = IF drawn.exc = "None" THEN Formulas(Len(cards), k)
                          ELSE formulas
    /\ r' = k
    /\ pc' = "responsive"
    /\ UNCHANGED <<anim, n_cards, cards, selection_type, total, arrangements, fig, layout, axes,
                   n_arrangements, dims, prev_dims>>

CreateComparisonView(k) ==
    /\ pc = "deck"
    /\ Bounded(Len(cards), k)
    /\ LET d == ArrangementsDict(Len(cards), k)
       IN  /\ arrangements_dict' = d
           /\ IF ComparisonCols(MaxLen(d)) = 0
              THEN /\ exc' = "ZeroDivisionError"
                   /\ UNCHANGED <<layout, axes>>
              ELSE LET l == calculate_comparison_layout(d)
                   IN  /\ layout' = l
                       /\ axes' = [t \in DOMAIN d |->
                              [q \in 1..Len(d[t]) |-> ComparisonAxes(q - 1, l)]]
                       /\ exc' = "None"
    /\ r' = k
    /\ pc' = "comparison"
    /\ UNCHANGED <<anim, n_cards, cards, selection_type, total, arrangements, fig, displays,
                   formulas, n_arrangements, dims, prev_dims>>

CalculateGridDimensions(c) ==
    /\ pc \in {"start", "dims"}
    /\ n_arrangements' = c
    /\ dims' = <<[count |-> c, n_rows |-> calculate_grid_dimensions(c)[1],
                  n_cols |-> calculate_grid_dimensions(c)[2]]>>
    /\ prev_dims' = dims
    /\ pc' = "dims"
    /\ UNCHANGED <<anim, n_cards, cards, r, selection_type, total, arrangements, fig,
                   arrangements_dict, displays, formulas, layout, axes, exc>>

\* Streamlit reruns the script from the top: nothing is kept between runs
Rerun ==
    /\ pc \in {"grid", "responsive", "comparison", "dims"}
    /\ pc' = "start"
    /\ n_cards' = 0
    /\ cards' = <<>>
    /\ r' = 0
    /\ selection_type' = ""
    /\ total' = 0
    /\ arrangements' = <<>>
    /\ fig' = <<>>
    /\ arrangements_dict' = <<>>
    /\ displays' = <<>>
    /\ formulas' = <<>>
    /\ layout' = <<>>
    /\ axes' = <<>>
    /\ exc' = "None"
    /\ n_arrangements' = 0
    /\ dims' = <<>>
    /\ prev_dims' = <<>>
    /\ arr_idx' = 0
    /\ card_i' = 0
    /\ y_step' = 0
    /\ ax2' = <<>>
    /\ progress' = RInt(0)

Next ==
    \/ \E n \in (-1)..MaxDeck : CreateDeck(n)
    \/ \E k \in 1..MaxR, type \in selection_types : ComputeTotal(k, type)
    \/ AnimateCardSelection
    \/ AnimateDropFrame
    \/ AnimateFinalFrame
    \/ CreateGridDisplay
    \/ \E k \in 1..MaxR : CreateResponsiveComparisonView(k)
    \/ \E k \in 1..MaxR : CreateComparisonView(k)
    \/ \E c \in 0..MaxCount : CalculateGridDimensions(c)
    \/ Rerun

Spec == Init /\ [][Next]_vars

(* ------------------------------ claims --------------------------------- *)
NoRepeat(type) == type \in {types[1], types[3]}

Enumerated == pc \in {"animated", "grid"}

Compared == pc \in {"responsive", "comparison"}

\* C1: for n >= 1, r >= 1 (r <= n in the no-repetition modes) the number of
\* arrangements enumerated equals the closed-form count for the same
\* (n, r, mode), in the animation and in the comparison view's formula table.
C1_CountMatchesClosedForm ==
    /\ (Enumerated /\ n_cards >= 1 /\ (NoRepeat(selection_type) => r <= n_cards))
          => Len(arrangements) = total
    /\ (pc = "responsive" /\ n_cards >= 1 /\ r <= n_cards)
          => /\ exc = "None"
             /\ \A q \in 1..4 : Len(arrangements_dict[types[q]]) = formulas[q]

C1_Witness ==
    /\ pc = "animated"
    /\ n_cards = 4
    /\ r = 2
    /\ selection_type = BallsAndBins
    /\ Len(arrangements) = 10
    /\ total = 10

\* C2: enumerating with r > n in a no-repetition mode fails with an
\* InvalidSelection error; no arrangement list (not even an empty one) is
\* returned.
C2_InvalidSelectionRaised ==
    /\ (Enumerated /\ NoRepeat(selection_type) /\ n_cards >= 1 /\ r > n_cards)
          => exc = "InvalidSelection"
    /\ (Compared /\ n_cards >= 1 /\ r > n_cards) => exc = "InvalidSelection"

IsInjective(t) == \A i, j \in DOMAIN t : i # j => t[i] # t[j]

LexLess(a, b) ==
    \E k \in 1..Len(a) : /\ \A j \in 1..(k - 1) : a[j] = b[j]
                         /\ a[k] < b[k]

StrictlyLexOrdered(list) ==
    \A q \in 1..(Len(list) - 1) : LexLess(list[q], list[q + 1])

Elements(list) == {list[q] : q \in 1..Len(list)}

DistinctTuples(n, k) == {t \in [1..k -> 0..(n - 1)] : IsInjective(t)}

\* C3: for n >= 1 and 1 <= r <= n the PermutationNoRepeat arrangements are
\* exactly the r-tuples of pairwise distinct deck positions, each once, in
\* strictly increasing lexicographic order of their index tuples.
C3_PermutationsLexicographic ==
    /\ (Enumerated /\ selection_type = types[1] /\ n_cards >= 1 /\ r <= n_cards)
          => /\ Elements(arrangements) = DistinctTuples(n_cards, r)
             /\ StrictlyLexOrdered(arrangements)
    /\ (Compared /\ n_cards >= 1 /\ r <= n_cards)
          => /\ Elements(arrangements_dict[types[1]]) = DistinctTuples(n_cards, r)
             /\ StrictlyLexOrdered(arrangements_dict[types[1]])

C3_Witness ==
    /\ pc = "animated"
    /\ selection_type = types[1]
    /\ n_cards = 3
    /\ r = 2
    /\ arrangements = << <<0, 1>>, <<0, 2>>, <<1, 0>>, <<1, 2>>, <<2, 0>>, <<2, 1>> >>

Ascending(t) == \A i \in 1..(Len(t) - 1) : t[i] < t[i + 1]

NonDecreasing(t) == \A i \in 1..(Len(t) - 1) : t[i] <= t[i + 1]

\* C4: every CombinationNoRepeat arrangement has strictly ascending deck
\* indices and every CombinationWithRepeat arrangement has non-decreasing
\* deck indices.
C4_CombinationsSorted ==
    /\ (Enumerated /\ selection_type = types[3])
          => \A q \in 1..Len(arrangements) : Ascending(arrangements[q])
    /\ (Enumerated /\ selection_type = BallsAndBins)
          => \A q \in 1..Len(arrangements) : NonDecreasing(arrangements[q])
    /\ Compared
          => /\ \A q \in 1..Len(arrangements_dict[types[3]]) :
                    Ascending(arrangements_dict[types[3]][q])
             /\ \A q \in 1..Len(arrangements_dict[types[4]]) :
                    NonDecreasing(arrangements_dict[types[4]][q])

C4_Witness ==
    /\ pc = "animated"
    /\ selection_type = BallsAndBins
    /\ n_cards = 3
    /\ r = 3
    /\ \E q \in 1..Len(arrangements) : arrangements[q] = <<0, 2, 2>>
    /\ \E q \in 1..Len(arrangements) : arrangements[q] = <<1, 1, 2>>

\* C5: for every count >= 1 the grid dimensions satisfy rows >= 1, cols >= 1
\* and rows * cols >= count, so every subplot index 1..count has a cell.
C5_GridHoldsEveryArrangement ==
    /\ (pc = "dims" /\ n_arrangements >= 1)
          => /\ dims[1].n_rows >= 1
             /\ dims[1].n_cols >= 1
             /\ dims[1].n_rows * dims[1].n_cols >= n_arrangements
    /\ (pc = "grid" /\ Len(arrangements) >= 1)
          => /\ fig.n_rows >= 1
             /\ fig.n_cols >= 1
             /\ \A q \in 1..Len(fig.axes) :
                    fig.axes[q].index \in 1..(fig.n_rows * fig.n_cols)

C5_Witness ==
    /\ pc = "dims"
    /\ n_arrangements = 13
    /\ dims[1].n_rows = 3
    /\ dims[1].n_cols = 6

\* C6: the column count is non-decreasing in count and never exceeds 6:
\* counts 1..4 give one row of count columns, counts 5..8 give 2 x 4, counts
\* >= 9 give min(6, count) columns and ceil(count / cols) rows (10 -> 2 x 6).
C6_ColumnsMonotoneAndCapped ==
    (pc = "dims" /\ n_arrangements >= 1)
        => LET c == n_arrangements
               rows == dims[1].n_rows
               cols == dims[1].n_cols
           IN  /\ cols <= 6
               /\ (c <= 4) => (rows = 1 /\ cols = c)
               /\ (c >= 5 /\ c <= 8) => (rows = 2 /\ cols = 4)
               /\ (c >= 9) => /\ cols = (IF c < 6 THEN c ELSE 6)
                              /\ rows * cols >= c
                              /\ (rows - 1) * cols < c
               /\ (c = 10) => (rows = 2 /\ cols = 6)
               /\ (Len(prev_dims) = 1 /\ prev_dims[1].count >= 1
                      /\ prev_dims[1].count <= c)
                     => prev_dims[1].n_cols <= cols

C6_Witness ==
    /\ pc = "dims"
    /\ n_arrangements = 10
    /\ dims[1].n_rows = 2
    /\ dims[1].n_cols = 6
    /\ Len(prev_dims) = 1
    /\ prev_dims[1].count = 8
    /\ prev_dims[1].n_cols = 4

PatchInside(p, xlim) ==
    /\ RLe(xlim[1], p.x)
    /\ RLe(RAdd(p.x, p.width), xlim[2])

\* C7: in the static grid display every card rectangle of every arrangement
\* lies inside its cell's horizontal bounds [-W/2, W/2], for every r >= 1.
C7_GridCardsInsideCell ==
    pc = "grid"
        => \A q \in 1..Len(fig.axes) :
               \A i \in 1..Len(fig.axes[q].patches) :
                   PatchInside(fig.axes[q].patches[i], fig.axes[q].xlim)

CellInsideQuadrant(a) ==
    /\ RLe(RInt(0), a.x_pos)
    /\ RLe(RAdd(a.x_pos, a.width), RInt(1))
    /\ RLe(RInt(0), a.y_pos)
    /\ RLe(RAdd(a.y_pos, a.height), RInt(1))

\* C8: in the four-quadrant comparison layout every arrangement cell of every
\* mode lies entirely inside its quadrant's unit square.
C8_ComparisonCellsInsideQuadrant ==
    (pc = "comparison" /\ exc = "None")
        => \A t \in DOMAIN axes :
               \A q \in 1..Len(axes[t]) : CellInsideQuadrant(axes[t][q])

\* C9: a layout operation given count == 0 returns an empty layout and does
\* not crash: grid dimensions, the per-quadrant layout of the comparison
\* view, and the shared comparison layout when every mode is empty.
C9_EmptyCountDoesNotCrash ==
    /\ (pc = "dims" /\ n_arrangements = 0)
          => dims[1].n_rows * dims[1].n_cols = 0
    /\ (pc = "responsive"
          /\ \E q \in 1..4 : Len(arrangements_dict[types[q]]) = 0)
          => exc = "None"
    /\ (pc = "comparison" /\ MaxLen(arrangements_dict) = 0)
          => exc = "None"

\* C10: for n >= 1 create_deck(n) returns exactly n cards, the card at index
\* i having rank (i mod 13) + 1 and suit suitTable[i mod 4]; n may exceed 52.
C10_DeckCyclesRankAndSuit ==
    (pc # "start" /\ pc # "dims" /\ n_cards >= 1)
        => /\ Len(cards) = n_cards
           /\ \A i \in 0..(n_cards - 1) :
                  /\ cards[i + 1].value = (i % 13) + 1
                  /\ cards[i + 1].suit = <<"H", "S", "C", "D">>[(i % 4) + 1]

C10_Witness ==
    /\ pc = "deck"
    /\ n_cards = 54
    /\ Len(cards) = 54
    /\ cards[14].value = 1
    /\ cards[14].suit = "S"
    /\ cards[53].value = 1
    /\ cards[53].suit = "H"
    /\ cards[53] = cards[1]

\* C11: building a deck with n < 1 fails with an InvalidSize error; no deck
\* (in particular no empty deck) is returned.
C11_InvalidSizeRaised ==
    (pc = "deck" /\ n_cards < 1) => (exc = "InvalidSize" /\ cards # <<>>)

InSelectionView == pc \in {"animating", "animated", "grid"}

\* left edge of slot j (0-based) of r slots of pitch 0.7 centred on x = 0
SlotLeft(k, j) == RAdd(RNeg(Rat(k * 7, 20)), Rat(j * 7, 10))

\* C12: in the selected-cards view the r slots have left edges
\* -(r*0.7)/2 + i*0.7, their footprint of width r*0.7 is centred on x = 0,
\* and every card rectangle of width 0.6 lies inside the view's bounds
\* [-(r*0.7)/2 - 0.5, (r*0.7)/2 + 0.5].
C12_SelectionSlotsCentredInsideView ==
    (InSelectionView /\ r >= 1)
        => /\ ax2.xlim[1] = RSub(RNeg(Rat(r * 7, 20)), Rat(1, 2))
           /\ ax2.xlim[2] = RAdd(Rat(r * 7, 20), Rat(1, 2))
           /\ \A j \in 1..Len(ax2.patches) :
                  LET p == ax2.patches[j].rect
                  IN  /\ p.x = SlotLeft(r, j - 1)
                      /\ p.width = Rat(6, 10)
                      /\ RLe(ax2.xlim[1], p.x)
                      /\ RLe(RAdd(p.x, p.width), ax2.xlim[2])
           /\ (ax2.kind = "final")
                 => /\ Len(ax2.patches) = r
                    /\ RAdd(ax2.patches[1].rect.x,
                            RAdd(ax2.patches[r].rect.x, Rat(7, 10))) = RInt(0)
                    /\ RSub(RAdd(ax2.patches[r].rect.x, Rat(7, 10)),
                            ax2.patches[1].rect.x) = Rat(r * 7, 10)

C12_Witness ==
    /\ pc = "animating"
    /\ r = 3
    /\ ax2.kind = "final"
    /\ ax2.xlim = <<Rat(-31, 20), Rat(31, 20)>>
    /\ ax2.patches[1].rect.x = Rat(-21, 20)
    /\ ax2.patches[3].rect.x = Rat(7, 20)

\* the frame shows cards 0..i-1 of arrangement k at rest and card i at height y
ShowsDrop(f, k, i, y) ==
    /\ f.kind = "drop"
    /\ f.title = k + 1
    /\ Len(f.patches) = i + 1
    /\ \A j \in 1..(i + 1) :
           /\ f.patches[j].card = arrangements[k + 1][j]
           /\ f.patches[j].rect.x = SlotLeft(r, j - 1)
           /\ f.patches[j].rect.y = (IF j <= i THEN Rat(1, 2) ELSE y)

\* the frame shows all r cards of arrangement k at rest
ShowsFinal(f, k) ==
    /\ f.kind = "final"
    /\ f.title = k + 1
    /\ Len(f.patches) = r
    /\ \A j \in 1..r :
           /\ f.patches[j].card = arrangements[k + 1][j]
           /\ f.patches[j].rect.x = SlotLeft(r, j - 1)
           /\ f.patches[j].rect.y = Rat(1, 2)

C13_Step ==
    (pc = "animating")
        => /\ (card_i < r)
                 => ShowsDrop(ax2', arr_idx, card_i,
                              <<RInt(2), Rat(5, 4), Rat(1, 2)>>[y_step + 1])
           /\ (card_i = r) => ShowsFinal(ax2', arr_idx)
           \* a new arrangement starts only after the previous final frame
           /\ (ax2'.title # ax2.title)
                 => /\ ax2.kind \in {"setup", "final"}
                    /\ ax2'.title = ax2.title + 1
                    /\ Len(ax2'.patches) = 1
           \* within an arrangement cards are added one by one, left to right
           /\ (ax2'.title = ax2.title)
                 => /\ Len(ax2'.patches) >= Len(ax2.patches)
                    /\ Len(ax2'.patches) <= Len(ax2.patches) + 1
                    /\ (ax2'.kind = "final") => Len(ax2.patches) = r
           \* the progress value is (k+1)/total, strictly increasing, 1 at the end
           /\ progress' = Rat(ax2'.title, Len(arrangements))
           /\ (ax2'.title # ax2.title) => (RLe(progress, progress') /\ progress' # progress)
           /\ (ax2'.title = ax2.title) => progress' = progress
           /\ (progress' = RInt(1)) <=> (ax2'.title = Len(arrangements))
           /\ (pc' = "animated") <=> (ax2'.kind = "final" /\ ax2'.title = Len(arrangements))

\* C13: during the animation arrangements are shown one at a time in
\* enumeration order and cards are placed left to right: a frame drawn while
\* card i of arrangement k drops shows exactly cards 0..i-1 of k at rest plus
\* card i, the final frame of k shows all r cards, arrangement k+1 starts
\* only after that final frame, and the progress value (k+1)/total is
\* strictly increasing and equals 1 exactly at the last arrangement.
C13_AnimationFramesInOrder == [][C13_Step]_vars

C13_Witness ==
    /\ pc = "animating"
    /\ n_cards = 3
    /\ r = 2
    /\ selection_type = types[1]
    /\ ax2.kind = "drop"
    /\ ax2.title = 2
    /\ Len(ax2.patches) = 2
    /\ ax2.patches[1].card = 0
    /\ ax2.patches[2].card = 2
    /\ ax2.patches[2].rect.y = Rat(5, 4)
    /\ progress = Rat(1, 3)

====
